---- MODULE Spec2Model ----
(***************************************************************************)
(* Token-gated group membership: the shared verification-and-moderation    *)
(* engine of verification.py and the reverification pass of verify_cron.py.*)
(* Two OS processes (the interactive bot and the cron job) share the       *)
(* stored documents and nothing else.                                      *)
(***************************************************************************)
EXTENDS Integers, FiniteSets, Sequences, TLC

(***************************************************************************)
(* Bounds of the model.                                                    *)
(***************************************************************************)
\* track_rejection is not started on a group whose stored count reached MaxCount.
MaxCount == 4
\* Passes of the scheduler in one run.
MaxPasses == 1
\* Writes of user_data by the interactive process in one run.
MaxBotWrites == 1
\* Calls of load_json_file / save_json_file the processes make on their own
\* in one run.
MaxStoreCalls == 3

(***************************************************************************)
(* Values.                                                                 *)
(***************************************************************************)
Groups == {"g1", "g2"}
\* Two processes that import verification.py and share the store.
Procs == {"p1", "p2"}
\* Python's None (falsy).
NoneVal == "None"
\* The 3-strike threshold of track_rejection.
BlockThreshold == 3
\* An empty JSON object, {}.
EmptyDoc == [x \in {} |-> 0]

VARIABLES
    rejected,   \* the stored rejected_groups document: group_id -> record
    now,        \* int(time.time())
    faults,     \* the failures the environment of this run can show
    procs,      \* the processes that run tracker operations in this run
    tr,         \* per process: the tracker call in progress
    last,       \* per process: the last completed tracker call and its result
    hist,       \* whether this run records the history variables below
    calls,      \* history: completed track_rejection calls per group since
                \* the group was fresh or last reset
    wasReset,   \* history: the group was reset while it was blocked
    vb,         \* the verify_user_balance call made: its arguments, the
                \* providers' answers and what it returned
    config,     \* the stored config document: group_id -> GroupConfig
    user_data,  \* the stored user_data document: group_id -> user_id -> record
    cron,       \* the scheduler process (verify_cron.py): its position and locals
    platform,   \* the chat-platform calls made in the current pass, in order
    checks,     \* the verify_user_balance calls of the current pass and
                \* what each returned, in order
    passes,     \* passes started
    bot,        \* the interactive process's write of user_data in progress
    reads,      \* per process: the last read-only tracker call and its result
    files,      \* file backend: resource -> the content of its file
    db,         \* transactional backend: resource -> its row
    environ,    \* per process: DATABASE_URL set at process start, and now
    io,         \* per process: its save_json_file call in progress
    lastCall,   \* the load_json_file / save_json_file call completed last
    lastSave,   \* history: per backend and resource, the last save call
    storeCalls  \* store calls started

trackerVars == <<rejected, now, faults, procs, tr, last, hist, calls, wasReset>>
schedVars == <<config, user_data, cron, platform, checks, passes, bot>>
storeVars == <<files, db, environ, io, lastCall, lastSave, storeCalls>>
vars == <<rejected, now, faults, procs, tr, last, hist, calls, wasReset, vb,
          config, user_data, cron, platform, checks, passes, bot, reads,
          files, db, environ, io, lastCall, lastSave, storeCalls>>

(***************************************************************************)
(* PersistentStore: load_json_file / save_json_file.                       *)
(***************************************************************************)
\* A load that hands on whatever it read.
LoadJsonFileUnchecked(stored, readError) == stored

\* A load that never finds anything.
LoadJsonFileAlwaysEmpty(stored, readError) == [x \in {} |-> 0]

\* load_json_file: the stored document, or {} when it is missing or cannot
\* be read or parsed (readError).
LoadJsonFile(stored, readError) ==
    IF readError THEN EmptyDoc ELSE stored

\* save_json_file: the document that is in the store after the call. A
\* write failure (ok = FALSE) is logged and leaves the stored document.
SaveJsonFile(stored, data, ok) ==
    IF ok THEN data ELSE stored

\* The outcomes a load and a save can have in this run.
ReadErrors == IF "load" \in faults THEN BOOLEAN ELSE {FALSE}
SaveOutcomes == IF "save" \in faults THEN BOOLEAN ELSE {TRUE}

(***************************************************************************)
(* RejectionTracker.                                                       *)
(***************************************************************************)
Truthy(v) == v # NoneVal

\* The record track_rejection creates for a group that has none.
NewRejectionRecord(group_id, group_name, admin_id, admin_name, current_time) ==
    [ rejection_count |-> 0,
      group_name      |-> IF Truthy(group_name) THEN group_name
                          ELSE "Group " \o group_id,
      last_admin_id   |-> admin_id,
      last_admin_name |-> IF Truthy(admin_name) THEN admin_name ELSE "Unknown",
      first_rejection |-> current_time,
      last_rejection  |-> current_time,
      blocked         |-> FALSE ]

\* A track_rejection that sets blocked one strike late.
TrackRejectionLate(doc, group_id, group_name, admin_id, admin_name, current_time) ==
    LET d0 == IF group_id \in DOMAIN doc THEN doc
              ELSE [g \in DOMAIN doc \cup {group_id} |->
                      IF g = group_id
                      THEN NewRejectionRecord(group_id, group_name, admin_id,
                                              admin_name, current_time)
                      ELSE doc[g]]
        r0 == d0[group_id]
        n  == r0.rejection_count + 1
    IN [d0 EXCEPT ![group_id] =
          [r0 EXCEPT !.rejection_count = n,
                     !.last_rejection = current_time,
                     !.last_admin_id = IF Truthy(admin_id) THEN admin_id ELSE @,
                     !.last_admin_name = IF Truthy(admin_name) THEN admin_name ELSE @,
                     !.group_name = IF Truthy(group_name) THEN group_name ELSE @,
                     !.blocked = IF n > BlockThreshold THEN TRUE ELSE r0.blocked]]

\* A track_rejection that counts every strike twice.
TrackRejectionTwice(doc, group_id, group_name, admin_id, admin_name, current_time) ==
    LET d0 == IF group_id \in DOMAIN doc THEN doc
              ELSE [g \in DOMAIN doc \cup {group_id} |->
                      IF g = group_id
                      THEN NewRejectionRecord(group_id, group_name, admin_id,
                                              admin_name, current_time)
                      ELSE doc[g]]
        r0 == d0[group_id]
        n  == r0.rejection_count + 2
    IN [d0 EXCEPT ![group_id] =
          [r0 EXCEPT !.rejection_count = n,
                     !.last_rejection = current_time,
                     !.last_admin_id = IF Truthy(admin_id) THEN admin_id ELSE @,
                     !.last_admin_name = IF Truthy(admin_name) THEN admin_name ELSE @,
                     !.group_name = IF Truthy(group_name) THEN group_name ELSE @,
                     !.blocked = IF n >= BlockThreshold THEN TRUE ELSE r0.blocked]]

\* A track_rejection that writes the metadata arguments as given, None
\* included.
TrackRejectionOverwrites(doc, group_id, group_name, admin_id, admin_name, current_time) ==
    LET d0 == IF group_id \in DOMAIN doc THEN doc
              ELSE [g \in DOMAIN doc \cup {group_id} |->
                      IF g = group_id
                      THEN NewRejectionRecord(group_id, group_name, admin_id,
                                              admin_name, current_time)
                      ELSE doc[g]]
        r0 == d0[group_id]
        n  == r0.rejection_count + 1
    IN [d0 EXCEPT ![group_id] =
          [r0 EXCEPT !.rejection_count = n,
                     !.last_rejection = current_time,
                     !.last_admin_id = admin_id,
                     !.last_admin_name = admin_name,
                     !.group_name = group_name,
                     !.blocked = IF n >= BlockThreshold THEN TRUE ELSE r0.blocked]]

\* track_rejection between its load and its save: the loaded document with
\* the record created if absent, the count incremented, the metadata given
\* updated, and blocked set once the count reaches the threshold.
TrackRejection(doc, group_id, group_name, admin_id, admin_name, current_time) ==
    LET d0 == IF group_id \in DOMAIN doc THEN doc
              ELSE [g \in DOMAIN doc \cup {group_id} |->
                      IF g = group_id
                      THEN NewRejectionRecord(group_id, group_name, admin_id,
                                              admin_name, current_time)
                      ELSE doc[g]]
        r0 == d0[group_id]
        n  == r0.rejection_count + 1
    IN [d0 EXCEPT ![group_id] =
          [r0 EXCEPT !.rejection_count = n,
                     !.last_rejection = current_time,
                     !.last_admin_id = IF Truthy(admin_id) THEN admin_id ELSE @,
                     !.last_admin_name = IF Truthy(admin_name) THEN admin_name ELSE @,
                     !.group_name = IF Truthy(group_name) THEN group_name ELSE @,
                     !.blocked = IF n >= BlockThreshold THEN TRUE ELSE r0.blocked]]

\* An is_group_blocked that takes a group without a record for blocked.
IsGroupBlockedAbsentTrue(doc, group_id) ==
    IF group_id \in DOMAIN doc THEN doc[group_id].blocked ELSE TRUE

\* is_group_blocked on a loaded document.
IsGroupBlocked(doc, group_id) ==
    IF group_id \in DOMAIN doc THEN doc[group_id].blocked ELSE FALSE

\* get_rejection_count on a loaded document.
GetRejectionCount(doc, group_id) ==
    IF group_id \in DOMAIN doc THEN doc[group_id].rejection_count ELSE 0

\* A reset that clears the count and leaves the blocked flag.
ResetRejectionCountKeepsBlocked(doc, group_id) ==
    [doc EXCEPT ![group_id] = [@ EXCEPT !.rejection_count = 0]]

\* A reset that clears the blocked flag and leaves the count.
ResetRejectionCountKeepsCount(doc, group_id) ==
    [doc EXCEPT ![group_id] = [@ EXCEPT !.blocked = FALSE]]

\* reset_rejection_count between its load and its save, for a group that has
\* a record.
ResetRejectionCount(doc, group_id) ==
    [doc EXCEPT ![group_id] = [@ EXCEPT !.rejection_count = 0, !.blocked = FALSE]]

\* A get_blocked_groups that does not filter.
GetBlockedGroupsAll(doc) == doc

\* get_blocked_groups: the records whose blocked field is true.
GetBlockedGroups(doc) ==
    [g \in {h \in DOMAIN doc : doc[h].blocked} |-> doc[g]]

\* get_all_rejections: the document as loaded.
GetAllRejections(doc) == doc

\* A reset_rejection_count that saves whether or not the group has a record.
ResetSavesAlways(loaded, group_id) == TRUE

\* reset_rejection_count, line 285: if group_id in rejected_groups.
ResetSaves(loaded, group_id) == group_id \in DOMAIN loaded

(***************************************************************************)
(* BalanceVerifier: verify_user_balance and the provider calls it makes.   *)
(***************************************************************************)
\* Decimals used when the token's metadata cannot be fetched.
DefaultDecimals == 18
\* MORALIS_API_KEY counts as valid-looking when it is longer than this.
MinKeyLen == 50
\* Largest exponent e for which 10^e is computed; every raw amount of the
\* model is below 10^MaxExp.
MaxExp == 6

RECURSIVE Pow10(_)
Pow10(e) == IF e = 0 THEN 1 ELSE 10 * Pow10(e - 1)

\* CHAIN_MAP.get(chain_id, chain_id).
ChainMap(chain_id) ==
    CASE chain_id \in {"eth", "mainnet", "0x1"} -> "eth"
      [] chain_id \in {"bsc", "binance", "0x38"} -> "bsc"
      [] chain_id \in {"polygon", "matic", "0x89"} -> "polygon"
      [] OTHER -> chain_id

\* An amount raw / 10^dec, as the providers' code computes it.
Amount(raw, dec) == [raw |-> raw, dec |-> dec]

\* amount >= min_balance, with min_balance = num/den: raw / 10^dec >= num / den.
\* For dec > MaxExp and num > 0 the quotient is below 1/den <= num/den.
AtLeast(amount, min_balance) ==
    IF min_balance.num = 0 THEN amount.raw >= 0
    ELSE IF amount.dec > MaxExp THEN FALSE
    ELSE amount.raw * min_balance.den >= min_balance.num * Pow10(amount.dec)

\* The group configurations verify_user_balance is called with: min_balance
\* as a fraction num/den, chain_id possibly absent; "no_token" and
\* "bad_min" are documents without a token key and with a min_balance that
\* is not a number.
ChainIds == {NoneVal, "eth", "0x38", "matic", "avax"}
MinBalances == {[num |-> 0, den |-> 1], [num |-> 1, den |-> 1],
                [num |-> 3, den |-> 2], [num |-> 1000, den |-> 1]}
GroupConfigs ==
    [kind : {"ok"}, token : {"tok"}, min_balance : MinBalances, chain_id : ChainIds]
    \cup [kind : {"no_token", "bad_min"}, token : {"tok"},
          min_balance : {[num |-> 1, den |-> 1]}, chain_id : {"eth"}]

\* What the providers answer in one call of verify_user_balance:
\*   key       len(MORALIS_API_KEY), 0 when it is not set
\*   moralis   get_wallet_token_balances: "error" (it raises), "absent"
\*             (the token is not in the answer) or "ok" with the token's
\*             raw balance and decimals
\*   ethKey    ETHERSCAN_API_KEY is set
\*   etherscan the REST call: "error" or "ok" with the raw integer balance
\*   decimals  get_token_metadata: "error" or "ok" with the decimals
KeyLens == {0, 50, 51}
MoralisAnswers ==
    [status : {"error", "absent"}, raw : {0}, dec : {0}]
    \cup [status : {"ok"}, raw : {0, 100, 150}, dec : {2}]
    \cup [status : {"ok"}, raw : {1}, dec : {0}]
EtherscanAnswers ==
    [status : {"error"}, raw : {0}] \cup [status : {"ok"}, raw : {0, 100, 150}]
DecimalsAnswers ==
    [status : {"error"}, value : {0}] \cup [status : {"ok"}, value : {0, 2}]
ProviderEnvs ==
    [key : KeyLens, moralis : MoralisAnswers, ethKey : BOOLEAN,
     etherscan : EtherscanAnswers, decimals : DecimalsAnswers]

\* A get_token_decimals that takes an undiscoverable precision to be 0.
GetTokenDecimalsZeroDefault(env) ==
    IF env.decimals.status = "error" THEN 0 ELSE env.decimals.value

\* get_token_decimals: the metadata's decimals, 18 on any error.
GetTokenDecimals(env) ==
    IF env.decimals.status = "error" THEN DefaultDecimals ELSE env.decimals.value

\* get_token_balance_moralis: the token's amount, 0.0 when the token is not
\* in the answer or on any error.
GetTokenBalanceMoralis(env) ==
    IF env.moralis.status = "ok"
    THEN Amount(env.moralis.raw, env.moralis.dec) ELSE Amount(0, 0)

\* get_token_balance_etherscan: the raw balance, 0.0 without a key or on any
\* error.
GetTokenBalanceEtherscan(env) ==
    IF ~env.ethKey \/ env.etherscan.status = "error" THEN 0 ELSE env.etherscan.raw

\* The Moralis branch is taken: MORALIS_API_KEY and len(MORALIS_API_KEY) > 50.
UsesMoralis(env) == env.key > MinKeyLen

\* The balance after the Moralis branch (0.0 when it is not taken).
PrimaryBalance(env) ==
    IF UsesMoralis(env) THEN GetTokenBalanceMoralis(env) ELSE Amount(0, 0)

\* The balance verify_user_balance compares: the primary one when it is
\* positive, otherwise etherscan's raw balance over 10^decimals.
ResolvedBalance(env) ==
    IF PrimaryBalance(env).raw <= 0
    THEN Amount(GetTokenBalanceEtherscan(env), GetTokenDecimals(env))
    ELSE PrimaryBalance(env)

\* The provider calls made, in order, with the chain each is made for.
ProviderCalls(group_config, env) ==
    LET chain_id == IF group_config.chain_id = NoneVal THEN "eth"
                    ELSE group_config.chain_id
    IN (IF UsesMoralis(env)
        THEN << [provider |-> "moralis", chain |-> ChainMap(chain_id)] >>
        ELSE << >>)
       \o (IF PrimaryBalance(env).raw <= 0
           THEN << [provider |-> "etherscan", chain |-> "eth"],
                   [provider |-> "decimals", chain |-> ChainMap(chain_id)] >>
           ELSE << >>)

\* amount <= min_balance.
AtMost(amount, min_balance) ==
    IF min_balance.num = 0 THEN amount.raw <= 0
    ELSE IF amount.dec > MaxExp THEN TRUE
    ELSE amount.raw * min_balance.den <= min_balance.num * Pow10(amount.dec)

\* A verify_user_balance with the comparison the wrong way round.
VerifyUserBalanceFlipped(group_config, env) ==
    IF group_config.kind = "no_token" THEN FALSE
    ELSE IF group_config.kind = "bad_min" THEN FALSE
    ELSE AtMost(ResolvedBalance(env), group_config.min_balance)

\* verify_user_balance: balance >= min_balance; any exception inside (a
\* missing token key, a min_balance that cannot be compared) is caught and
\* gives False.
VerifyUserBalance(group_config, env) ==
    IF group_config.kind = "no_token" THEN FALSE
    ELSE IF group_config.kind = "bad_min" THEN FALSE
    ELSE AtLeast(ResolvedBalance(env), group_config.min_balance)

NoVerify == [pc |-> "idle"]

\* The scheduler and the interactive writer of user_data are not running.
CronOff == [pc |-> "off"]
BotOff == [pc |-> "off", writes |-> 0]
SchedOff ==
    /\ config = EmptyDoc /\ user_data = EmptyDoc /\ cron = CronOff
    /\ platform = << >> /\ checks = << >> /\ passes = 0 /\ bot = BotOff

\* The resources of the store: CONFIG_PATH and REJECTED_GROUPS_PATH.
StoreKeys == {"config.json", "rejected_groups.json"}
\* The two backends of load_json_file / save_json_file.
Backends == {"file", "db"}

\* What a file holds: nothing (the file does not exist), an empty file (just
\* opened for writing), the text of a document cut short by a failed write,
\* or the JSON text of a document.
Missing == [kind |-> "missing", value |-> EmptyDoc]
Truncated == [kind |-> "empty", value |-> EmptyDoc]
Partial(data) == [kind |-> "partial", value |-> data]
\* json.dump: the text of a document; json.load gives the document back from
\* a complete text and raises on any other content.
JsonDump(data) == [kind |-> "json", value |-> data]
Parses(content) == content.kind = "json"
JsonLoad(content) == content.value

\* No store call made, no save made.
NoIo == [pc |-> "idle", key |-> NoneVal, data |-> EmptyDoc]
NoStoreCall == [op |-> "none", p |-> NoneVal, key |-> NoneVal, backend |-> NoneVal,
               data |-> EmptyDoc, ret |-> FALSE, doc |-> EmptyDoc]
NoSave == [state |-> "none", ok |-> FALSE, data |-> EmptyDoc]
NoQuery == [op |-> "none", g |-> NoneVal, blocked |-> FALSE, count |-> 0,
            doc |-> EmptyDoc]

\* No process uses the store on its own, no read-only tracker call is made.
StoreOff ==
    /\ files = [k \in StoreKeys |-> Missing]
    /\ db = [k \in StoreKeys |-> Missing]
    /\ environ = [p \in Procs |-> [start |-> FALSE, now |-> FALSE]]
    /\ io = [p \in Procs |-> NoIo]
    /\ lastCall = NoStoreCall
    /\ lastSave = [b \in Backends |-> [k \in StoreKeys |-> NoSave]]
    /\ storeCalls = 0
    /\ reads = [p \in Procs |-> NoQuery]

(***************************************************************************)
(* The processes' tracker calls.                                           *)
(***************************************************************************)
Idle == [pc |-> "idle", op |-> "none", g |-> NoneVal, doc |-> EmptyDoc,
         base |-> EmptyDoc]
NoCall == [op |-> "none", g |-> NoneVal, ret |-> FALSE, saved |-> TRUE]

\* The metadata arguments a caller passes (None: omitted).
NameArgs == {NoneVal}
AdminArgs == {NoneVal}

\* track_rejection, line 237: the load, and the changes made to the loaded
\* copy before the save, for a caller passing metadata from these sets.
TrackLoadWith(p, g, names, admins) ==
    /\ tr[p].pc = "idle"
    /\ GetRejectionCount(rejected, g) < MaxCount
    /\ \E err \in ReadErrors, name \in names, aid \in admins, aname \in admins :
         LET loaded == LoadJsonFile(rejected, err)
         IN tr' = [tr EXCEPT ![p] =
                     [pc |-> "save", op |-> "track", g |-> g,
                      doc |-> TrackRejection(loaded, g, name, aid, aname, now),
                      base |-> loaded,
                      args |-> [group_name |-> name, admin_id |-> aid,
                                admin_name |-> aname, current_time |-> now]]]
    /\ UNCHANGED <<rejected, now, faults, procs, last, hist, calls, wasReset, vb, reads>>
    /\ UNCHANGED storeVars
    /\ UNCHANGED schedVars

\* track_rejection called without metadata.
TrackLoad(p, g) == TrackLoadWith(p, g, NameArgs, AdminArgs)

\* track_rejection, lines 267-268: the save, whose result is ignored, and
\* the return of the blocked flag of the process's own copy.
TrackSave(p) ==
    /\ tr[p].pc = "save" /\ tr[p].op = "track"
    /\ \E ok \in SaveOutcomes :
         /\ rejected' = SaveJsonFile(rejected, tr[p].doc, ok)
         /\ last' = IF hist
                    THEN [last EXCEPT ![p] =
                            [op |-> "track", g |-> tr[p].g,
                             ret |-> tr[p].doc[tr[p].g].blocked, saved |-> ok]]
                    ELSE last
    /\ calls' = IF hist THEN [calls EXCEPT ![tr[p].g] = @ + 1] ELSE calls
    /\ tr' = [tr EXCEPT ![p] = Idle]
    /\ UNCHANGED <<now, faults, procs, hist, wasReset, vb, reads>>
    /\ UNCHANGED storeVars
    /\ UNCHANGED schedVars

\* reset_rejection_count, lines 284-285: the load.
ResetLoad(p, g) ==
    /\ tr[p].pc = "idle"
    /\ \E err \in ReadErrors :
         LET loaded == LoadJsonFile(rejected, err)
         IN tr' = [tr EXCEPT ![p] =
                     [pc |-> "save", op |-> "reset", g |-> g,
                      doc |-> IF g \in DOMAIN loaded
                              THEN ResetRejectionCount(loaded, g) ELSE loaded,
                      base |-> loaded]]
    /\ UNCHANGED <<rejected, now, faults, procs, last, hist, calls, wasReset, vb, reads>>
    /\ UNCHANGED storeVars
    /\ UNCHANGED schedVars

\* reset_rejection_count, lines 285-289: the save when the group has a
\* record (its result is returned), and True with no save when it has none.
ResetSave(p) ==
    /\ tr[p].pc = "save" /\ tr[p].op = "reset"
    /\ LET g == tr[p].g
       IN IF ResetSaves(tr[p].base, g)
          THEN \E ok \in SaveOutcomes :
                 /\ rejected' = SaveJsonFile(rejected, tr[p].doc, ok)
                 /\ last' = IF hist
                            THEN [last EXCEPT ![p] =
                                    [op |-> "reset", g |-> g, ret |-> ok, saved |-> ok]]
                            ELSE last
                 /\ calls' = IF hist /\ ok THEN [calls EXCEPT ![g] = 0] ELSE calls
                 /\ wasReset' = IF hist /\ ok /\ IsGroupBlocked(tr[p].base, g)
                                THEN [wasReset EXCEPT ![g] = TRUE] ELSE wasReset
          ELSE /\ last' = IF hist
                          THEN [last EXCEPT ![p] =
                                  [op |-> "reset", g |-> g, ret |-> TRUE, saved |-> FALSE]]
                          ELSE last
               /\ UNCHANGED <<rejected, calls, wasReset>>
    /\ tr' = [tr EXCEPT ![p] = Idle]
    /\ UNCHANGED <<now, faults, procs, hist, vb, reads>>
    /\ UNCHANGED storeVars
    /\ UNCHANGED schedVars

TrackerInit(ps, fs, h) ==
    /\ hist = h
    /\ rejected = EmptyDoc
    /\ now = 0
    /\ faults \in fs
    /\ procs = ps
    /\ tr = [p \in Procs |-> Idle]
    /\ last = [p \in Procs |-> NoCall]
    /\ calls = [g \in Groups |-> 0]
    /\ wasReset = [g \in Groups |-> FALSE]

TrackerNext ==
    \E p \in procs :
        \/ \E g \in Groups : TrackLoad(p, g)
        \/ TrackSave(p)
        \/ \E g \in Groups : ResetLoad(p, g)
        \/ ResetSave(p)

\* is_group_blocked(g) by process p: a load and a read of the loaded copy.
QueryBlocked(p, g) ==
    /\ \E err \in ReadErrors :
         reads' = [reads EXCEPT ![p] =
                     [op |-> "is_group_blocked", g |-> g,
                      blocked |-> IsGroupBlocked(LoadJsonFile(rejected, err), g),
                      count |-> 0, doc |-> EmptyDoc]]
    /\ UNCHANGED <<trackerVars, vb, schedVars, storeVars>>

\* get_rejection_count(g) by process p.
QueryCount(p, g) ==
    /\ \E err \in ReadErrors :
         reads' = [reads EXCEPT ![p] =
                     [op |-> "get_rejection_count", g |-> g, blocked |-> FALSE,
                      count |-> GetRejectionCount(LoadJsonFile(rejected, err), g),
                      doc |-> EmptyDoc]]
    /\ UNCHANGED <<trackerVars, vb, schedVars, storeVars>>

\* get_blocked_groups() by process p.
QueryBlockedGroups(p) ==
    /\ \E err \in ReadErrors :
         reads' = [reads EXCEPT ![p] =
                     [op |-> "get_blocked_groups", g |-> NoneVal, blocked |-> FALSE,
                      count |-> 0,
                      doc |-> GetBlockedGroups(LoadJsonFile(rejected, err))]]
    /\ UNCHANGED <<trackerVars, vb, schedVars, storeVars>>

\* get_all_rejections() by process p.
QueryAll(p) ==
    /\ \E err \in ReadErrors :
         reads' = [reads EXCEPT ![p] =
                     [op |-> "get_all_rejections", g |-> NoneVal, blocked |-> FALSE,
                      count |-> 0,
                      doc |-> GetAllRejections(LoadJsonFile(rejected, err))]]
    /\ UNCHANGED <<trackerVars, vb, schedVars, storeVars>>

\* The process that makes the read-only calls.
Readers == {"p2"}

QueryNext ==
    \E p \in Readers :
        \/ \E g \in Groups : QueryBlocked(p, g)
        \/ \E g \in Groups : QueryCount(p, g)
        \/ QueryBlockedGroups(p)
        \/ QueryAll(p)

\* One process calling the tracker, the store reliable.
InitSeq == TrackerInit({"p1"}, {{}}, TRUE) /\ vb = NoVerify /\ SchedOff /\ StoreOff
SpecSeq == InitSeq /\ [][TrackerNext]_vars

\* One process calling track_rejection and reset_rejection_count, the other
\* process making the read-only calls in between; the store reliable.
NextQuery == TrackerNext \/ QueryNext
SpecQuery == InitSeq /\ [][NextQuery]_vars

\* Both processes calling the tracker, their loads and saves interleaving;
\* a save may fail.
InitRej == TrackerInit(Procs, {{"save"}}, FALSE) /\ vb = NoVerify /\ SchedOff /\ StoreOff
SpecRej == InitRej /\ [][TrackerNext]_vars

(***************************************************************************)
(* ReverificationScheduler: verify_cron.py.                                *)
(***************************************************************************)
\* The member keys of user_data and what int(user_id) makes of them.
UserKeys == {"7", "07", "8", "9"}
IntOf(user_id) ==
    CASE user_id \in {"7", "07"} -> 7
      [] user_id = "8" -> 8
      [] user_id = "9" -> 9
StrOf(n) ==
    CASE n = 7 -> "7"
      [] n = 8 -> "8"
      [] n = 9 -> "9"
\* A member key that int() does not accept: int(user_id) raises ValueError.
IsNumeric(user_id) == user_id \in UserKeys
\* ADMIN_USER_ID, the owner identity.
ADMIN_USER_ID == "7"

\* An is_owner that compares the integer with the string: never equal.
IsOwnerNoStr(user_id) == FALSE

\* is_owner: str(user_id) == ADMIN_USER_ID.
IsOwner(user_id) == StrOf(user_id) = ADMIN_USER_ID

\* The order in which a document's keys are iterated.
GroupOrder == <<"g1", "g2">>
KeyOrder == <<"7", "07", "x", "8", "9">>
InOrder(order, S) == SelectSeq(order, LAMBDA x : x \in S)

\* dict.get(key, default).
Get(doc, key, default) == IF key \in DOMAIN doc THEN doc[key] ELSE default

\* The provider answers of the passes: the primary provider not configured,
\* the secondary one answering raw / 10^2.
PassEnvs ==
    {env \in ProviderEnvs :
        /\ env.key = 0 /\ env.moralis.status = "error" /\ env.ethKey
        /\ env.etherscan.status = "ok" /\ env.etherscan.raw \in {0, 150}
        /\ env.decimals.status = "ok" /\ env.decimals.value = 2}

\* The outcomes a chat-platform call can have in this run.
PlatformOutcomes == IF "platform" \in faults THEN BOOLEAN ELSE {TRUE}

\* The scheduler's locals once a group's members are done (or the group is
\* given up): back in the loop of periodic_verification, line 102.
NextGroup(c) ==
    [pc |-> "group", config |-> c.config, groups |-> Tail(c.groups)]

\* The scheduler's locals once a member is done: on to the next member.
NextUser(c) == [c EXCEPT !.users = Tail(@)]

\* The cron service starts main(): a new process. At most limit passes are
\* run; keep says whether the logs of platform calls and checks go on from
\* the pass before.
CronStartWith(limit, keep) ==
    /\ cron.pc \in {"ready", "done"}
    /\ passes < limit
    /\ passes' = passes + 1
    /\ cron' = [pc |-> "start"]
    /\ platform' = IF keep THEN platform ELSE << >>
    /\ checks' = IF keep THEN checks ELSE << >>
    /\ UNCHANGED <<config, user_data, bot, vb, reads>>
    /\ UNCHANGED storeVars
    /\ UNCHANGED trackerVars

\* A pass whose logs of platform calls and checks start empty.
CronStart == CronStartWith(MaxPasses, FALSE)

\* periodic_verification, lines 87-100: the config is loaded; no groups, no
\* pass.
CronLoadConfig ==
    /\ cron.pc = "start"
    /\ \E err \in ReadErrors :
         LET loaded == LoadJsonFile(config, err)
         IN cron' = IF loaded = EmptyDoc THEN [pc |-> "done"]
                    ELSE [pc |-> "group", config |-> loaded,
                          groups |-> InOrder(GroupOrder, DOMAIN loaded)]
    /\ UNCHANGED <<config, user_data, platform, checks, passes, bot, vb, reads>>
    /\ UNCHANGED storeVars
    /\ UNCHANGED trackerVars

\* periodic_verification, lines 102-107: the next group, with its
\* configuration read again from the store (the copy of line 87 if the group
\* is no longer there); line 109 when no group is left.
CronGroup ==
    /\ cron.pc = "group"
    /\ IF cron.groups = << >>
       THEN cron' = [pc |-> "done"]
       ELSE \E err \in ReadErrors :
              LET group_id == Head(cron.groups)
                  fresh_config == LoadJsonFile(config, err)
              IN cron' = [pc |-> "users", config |-> cron.config,
                          groups |-> cron.groups, group_id |-> group_id,
                          group_config |->
                              Get(fresh_config, group_id, cron.config[group_id])]
    /\ UNCHANGED <<config, user_data, platform, checks, passes, bot, vb, reads>>
    /\ UNCHANGED storeVars
    /\ UNCHANGED trackerVars

\* verify_all_members, lines 38-45: user_data is loaded and the group's
\* members are taken from it.
CronLoadUsers ==
    /\ cron.pc = "users"
    /\ \E err \in ReadErrors :
         LET loaded == LoadJsonFile(user_data, err)
         IN cron' = [pc |-> "member", config |-> cron.config,
                     groups |-> cron.groups, group_id |-> cron.group_id,
                     group_config |-> cron.group_config,
                     user_data |-> loaded,
                     users |-> InOrder(KeyOrder,
                                       DOMAIN Get(loaded, cron.group_id, EmptyDoc)),
                     verified_count |-> 0, removed_count |-> 0, error_count |-> 0]
    /\ UNCHANGED <<config, user_data, platform, checks, passes, bot, vb, reads>>
    /\ UNCHANGED storeVars
    /\ UNCHANGED trackerVars

\* A test of the verified flag that every record passes.
IsVerifiedAlways(user_info) == TRUE

\* verify_all_members, line 53: user_info.get("verified").
IsVerified(user_info) == user_info.verified

\* A compliant member that is removed all the same.
AfterCompliantRemoves(c) == [c EXCEPT !.pc = "ban"]

\* verify_all_members, lines 75-77: the member still has the balance; it is
\* counted and the loop goes on with the next member.
AfterCompliant(c) == [NextUser(c) EXCEPT !.verified_count = @ + 1]

\* verify_all_members, lines 79-82: an exception raised in the loop outside
\* the try of the removal is caught by the except of the function; the
\* members not yet reached are left out and the pass goes on with the next
\* group.
AfterMemberError(c) == NextGroup(c)

\* verify_all_members, lines 47-59 and 75-77: the next member. The owner is
\* skipped, a member not verified is passed over, a verified one has the
\* balance checked; with the balance sufficient the member is counted,
\* otherwise the removal begins. int(user_id) of line 49 and
\* user_info["address"] of line 54 raise on a key that is not a number and
\* on a record without address.
CronMember ==
    /\ cron.pc = "member"
    /\ IF cron.users = << >>
       THEN cron' = NextGroup(cron) /\ UNCHANGED checks
       ELSE LET user_id == Head(cron.users)
                user_info == cron.user_data[cron.group_id][user_id]
            IN IF ~IsNumeric(user_id)
               THEN cron' = AfterMemberError(cron) /\ UNCHANGED checks
               ELSE IF IsOwner(IntOf(user_id))
               THEN cron' = NextUser(cron) /\ UNCHANGED checks
               ELSE IF ~IsVerified(user_info)
               THEN cron' = NextUser(cron) /\ UNCHANGED checks
               ELSE IF "address" \notin DOMAIN user_info
               THEN cron' = AfterMemberError(cron) /\ UNCHANGED checks
               ELSE \E env \in PassEnvs :
                      LET has_balance == VerifyUserBalance(cron.group_config, env)
                      IN /\ checks' = Append(checks,
                                [group_id |-> cron.group_id, user_id |-> user_id,
                                 address |-> user_info.address,
                                 has_balance |-> has_balance])
                         /\ cron' = IF has_balance
                                    THEN AfterCompliant(cron)
                                    ELSE [cron EXCEPT !.pc = "ban"]
    /\ UNCHANGED <<config, user_data, platform, passes, bot, vb, reads>>
    /\ UNCHANGED storeVars
    /\ UNCHANGED trackerVars

\* A removal error after which the member is marked in the scheduler's copy.
AfterRemovalErrorMarks(c) ==
    [NextUser(c) EXCEPT !.pc = "member", !.error_count = @ + 1,
                        !.user_data = [@ EXCEPT ![c.group_id][Head(c.users)].verified = FALSE]]

\* A removal error that ends the group's loop.
AfterRemovalErrorEndsGroup(c) == NextGroup(c)

\* verify_all_members, lines 72-74: the except branch of a removal counts
\* the error; the loop goes on with the next member.
AfterRemovalError(c) ==
    [NextUser(c) EXCEPT !.pc = "member", !.error_count = @ + 1]

\* A platform call that is a ban whatever was asked for.
PlatformCallAlwaysBan(op, chat_id, user_id, ok) ==
    [op |-> "ban", chat_id |-> chat_id, user_id |-> user_id, ok |-> ok]

\* A call of the chat platform as the platform sees it.
PlatformCall(op, chat_id, user_id, ok) ==
    [op |-> op, chat_id |-> chat_id, user_id |-> user_id, ok |-> ok]

\* verify_all_members, line 63: ban_chat_member; when it raises, lines 72-74.
CronBan ==
    /\ cron.pc = "ban"
    /\ \E ok \in PlatformOutcomes :
         /\ platform' = Append(platform,
                PlatformCall("ban", cron.group_id, IntOf(Head(cron.users)), ok))
         /\ cron' = IF ok THEN [cron EXCEPT !.pc = "unban"]
                    ELSE AfterRemovalError(cron)
    /\ UNCHANGED <<config, user_data, checks, passes, bot, vb, reads>>
    /\ UNCHANGED storeVars
    /\ UNCHANGED trackerVars

\* verify_all_members, line 64: unban_chat_member; when it raises, lines 72-74.
CronUnban ==
    /\ cron.pc = "unban"
    /\ \E ok \in PlatformOutcomes :
         /\ platform' = Append(platform,
                PlatformCall("unban", cron.group_id, IntOf(Head(cron.users)), ok))
         /\ cron' = IF ok THEN [cron EXCEPT !.pc = "save"]
                    ELSE AfterRemovalError(cron)
    /\ UNCHANGED <<config, user_data, checks, passes, bot, vb, reads>>
    /\ UNCHANGED storeVars
    /\ UNCHANGED trackerVars

\* A removal that rewrites the flags of the whole group: false for the
\* member removed, true for the others.
MarkUnverifiedOthersTrue(doc, group_id, user_id) ==
    [doc EXCEPT ![group_id] =
        [u \in DOMAIN @ |-> [@[u] EXCEPT !.verified = (u # user_id)]]]

\* A removal that marks nobody.
MarkUnverifiedNot(doc, group_id, user_id) == doc

\* verify_all_members, line 67: user_data[group_id][user_id]["verified"] = False.
MarkUnverified(doc, group_id, user_id) ==
    [doc EXCEPT ![group_id][user_id].verified = FALSE]

\* verify_all_members, lines 67-71: the member is marked in the scheduler's
\* copy of user_data and the copy is saved (the result of the save is not
\* looked at).
CronSave ==
    /\ cron.pc = "save"
    /\ LET marked == MarkUnverified(cron.user_data, cron.group_id, Head(cron.users))
       IN /\ \E ok \in SaveOutcomes :
                user_data' = SaveJsonFile(user_data, marked, ok)
          /\ cron' = [NextUser(cron) EXCEPT !.pc = "member",
                                            !.user_data = marked,
                                            !.removed_count = @ + 1]
    /\ UNCHANGED <<config, platform, checks, passes, bot, vb, reads>>
    /\ UNCHANGED storeVars
    /\ UNCHANGED trackerVars

CronNext ==
    \/ CronStart
    \/ CronLoadConfig
    \/ CronGroup
    \/ CronLoadUsers
    \/ CronMember
    \/ CronBan
    \/ CronUnban
    \/ CronSave

(***************************************************************************)
(* The interactive process's write of user_data: a member's proof of       *)
(* balance is recorded (verified = true).                                  *)
(***************************************************************************)
VerifiedRecord ==
    [address |-> "0xA", verified |-> TRUE, last_verified |-> 1,
     verification_tx |-> "0xT"]

\* user_data with the member's record set.
WithRecord(doc, group_id, user_id, rec) ==
    LET members == Get(doc, group_id, EmptyDoc)
        members2 == [u \in DOMAIN members \cup {user_id} |->
                        IF u = user_id THEN rec ELSE members[u]]
    IN [g \in DOMAIN doc \cup {group_id} |->
          IF g = group_id THEN members2 ELSE doc[g]]

\* The members whose proofs the interactive process records.
BotKeys == {"8", "9"}

\* The interactive process loads user_data and sets the member's record.
BotLoad ==
    /\ bot.pc = "idle"
    /\ bot.writes < MaxBotWrites
    /\ \E g \in Groups, u \in BotKeys, err \in ReadErrors :
         bot' = [pc |-> "save", writes |-> bot.writes + 1,
                 doc |-> WithRecord(LoadJsonFile(user_data, err), g, u,
                                    VerifiedRecord)]
    /\ UNCHANGED <<config, user_data, cron, platform, checks, passes, vb, reads>>
    /\ UNCHANGED storeVars
    /\ UNCHANGED trackerVars

\* The interactive process saves its copy.
BotSave ==
    /\ bot.pc = "save"
    /\ \E ok \in SaveOutcomes :
         user_data' = SaveJsonFile(user_data, bot.doc, ok)
    /\ bot' = [pc |-> "idle", writes |-> bot.writes]
    /\ UNCHANGED <<config, cron, platform, checks, passes, vb, reads>>
    /\ UNCHANGED storeVars
    /\ UNCHANGED trackerVars

BotNext == BotLoad \/ BotSave

\* The documents in the store when the cron service starts.
TestConfig(min) ==
    [kind |-> "ok", token |-> "tok", min_balance |-> [num |-> min, den |-> 1],
     chain_id |-> "eth"]
InitConfigs ==
    { [g \in {"g1", "g2"} |-> TestConfig(1)], [g \in {"g1"} |-> TestConfig(1000)] }
UserRecords ==
    [address : {"0xA"}, verified : BOOLEAN, last_verified : {1},
     verification_tx : {"0xT"}]
MemberDocs(keys) == UNION { [K -> UserRecords] : K \in SUBSET keys }
InitUserData ==
    { [g \in {"g1", "g2"} |-> IF g = "g1" THEN m1 ELSE m2] :
        m1 \in MemberDocs({"7", "8", "9"}), m2 \in MemberDocs({"07", "8"}) }
\* rejected_groups after three rejections of g1.
BlockedG1 ==
    TrackRejection(TrackRejection(TrackRejection(EmptyDoc, "g1", NoneVal, NoneVal,
        NoneVal, 0), "g1", NoneVal, NoneVal, NoneVal, 0), "g1", NoneVal, NoneVal,
        NoneVal, 0)

\* The state when the cron service starts, user_data being one of docs.
SchedInitWith(fs, botState, rejs, docs) ==
    /\ rejected \in rejs
    /\ now = 0
    /\ faults \in fs
    /\ procs = {}
    /\ tr = [p \in Procs |-> Idle]
    /\ last = [p \in Procs |-> NoCall]
    /\ hist = FALSE
    /\ calls = [g \in Groups |-> 0]
    /\ wasReset = [g \in Groups |-> FALSE]
    /\ vb = NoVerify
    /\ config \in InitConfigs
    /\ user_data \in docs
    /\ cron = [pc |-> "ready"]
    /\ platform = << >>
    /\ checks = << >>
    /\ passes = 0
    /\ bot = botState
    /\ StoreOff

\* The store as the interactive process leaves it: every member key a
\* number, every record with its address.
SchedInit(fs, botState, rejs) == SchedInitWith(fs, botState, rejs, InitUserData)

\* One scheduler process alone; store and platform reliable; g1 may have
\* been blocked by three rejections before the pass.
InitPass == SchedInit({{}}, BotOff, {EmptyDoc, BlockedG1})
SpecPass == InitPass /\ [][CronNext]_vars

\* One scheduler process alone; saves and platform calls may fail.
InitCron == SchedInit({{"save", "platform"}}, BotOff, {EmptyDoc})
SpecCron == InitCron /\ [][CronNext]_vars

\* The scheduler and the interactive process, their store accesses
\* interleaving; saves and platform calls may fail.
InitSched ==
    SchedInit({{"save", "platform"}}, [pc |-> "idle", writes |-> 0], {EmptyDoc})
NextSched == CronNext \/ BotNext
SpecSched == InitSched /\ [][NextSched]_vars

(***************************************************************************)
(* Calls of verify_user_balance.                                            *)
(***************************************************************************)
\* One call of verify_user_balance.
VerifyCall ==
    /\ vb.pc = "idle"
    /\ \E group_config \in GroupConfigs, env \in ProviderEnvs :
         vb' = [pc |-> "returned", group_config |-> group_config, env |-> env,
                calls |-> IF group_config.kind = "no_token" THEN << >>
                          ELSE ProviderCalls(group_config, env),
                result |-> VerifyUserBalance(group_config, env)]
    /\ UNCHANGED trackerVars
    /\ UNCHANGED schedVars
    /\ UNCHANGED reads
    /\ UNCHANGED storeVars

\* The caller takes the result; the next call can be made.
VerifyReturn ==
    /\ vb.pc = "returned"
    /\ vb' = NoVerify
    /\ UNCHANGED trackerVars
    /\ UNCHANGED schedVars
    /\ UNCHANGED reads
    /\ UNCHANGED storeVars

InitVerify == TrackerInit({}, {{}}, FALSE) /\ vb = NoVerify /\ SchedOff /\ StoreOff
NextVerify == VerifyCall \/ VerifyReturn
SpecVerify == InitVerify /\ [][NextVerify]_vars

(***************************************************************************)
(* The processes' calls of load_json_file and save_json_file, with the     *)
(* backend each call selects.                                              *)
(***************************************************************************)
\* The documents the processes save: rejected_groups after one and after
\* three rejections of g1.
OneStrike == TrackRejection(EmptyDoc, "g1", NoneVal, NoneVal, NoneVal, 0)
StoreDocs == {OneStrike, BlockedG1}

\* os.getenv("DATABASE_URL"), read by every call of load_json_file and
\* save_json_file.
UsesDatabase(p) == environ[p].now
BackendOf(p) == IF UsesDatabase(p) THEN "db" ELSE "file"

\* A backend choice made once, when the process starts.
BackendAtStart(p) == IF environ[p].start THEN "db" ELSE "file"

\* The transactional backend: the row of a resource holds the whole
\* document; a load of a resource without a row gives {}, a save replaces
\* the row and returns True, or fails, leaves the row and returns False.
DbLoad(row) == IF Parses(row) THEN JsonLoad(row) ELSE EmptyDoc
DbSave(row, data, ok) == IF ok THEN JsonDump(data) ELSE row

\* load_json_file, lines 82-91: {} when the file does not exist or
\* json.load raises.
FileLoad(content) == LoadJsonFile(JsonLoad(content), ~Parses(content))

\* A save that reports True whatever happened.
SaveReturnAlwaysTrue(ok) == TRUE

\* save_json_file, lines 103-107: True after json.dump, False from the
\* except branch.
SaveReturn(ok) == ok

\* The record of a completed call.
DoneIo(p, op, k, b, data, ret, doc) ==
    [op |-> op, p |-> p, key |-> k, backend |-> b, data |-> data,
     ret |-> ret, doc |-> doc]
DoneSave(ok, data) ==
    [state |-> "done", ok |-> ok, data |-> IF ok THEN data ELSE EmptyDoc]

\* load_json_file(k) by process p.
StoreLoad(p, k) ==
    /\ io[p].pc = "idle"
    /\ storeCalls < MaxStoreCalls
    /\ storeCalls' = storeCalls + 1
    /\ LET b == BackendOf(p)
           doc == IF b = "db" THEN DbLoad(db[k]) ELSE FileLoad(files[k])
       IN lastCall' = DoneIo(p, "load", k, b, EmptyDoc, TRUE, doc)
    /\ UNCHANGED <<files, db, environ, io, lastSave, reads, vb>>
    /\ UNCHANGED trackerVars
    /\ UNCHANGED schedVars

\* save_json_file(k, data) with DATABASE_URL set, lines 96-98: the call is
\* handed to the transactional backend.
DbSaveCall(p, k, data) ==
    /\ io[p].pc = "idle"
    /\ BackendOf(p) = "db"
    /\ storeCalls < MaxStoreCalls
    /\ storeCalls' = storeCalls + 1
    /\ \E ok \in SaveOutcomes :
         /\ db' = [db EXCEPT ![k] = DbSave(@, data, ok)]
         /\ lastCall' = DoneIo(p, "save", k, "db", data, SaveReturn(ok), EmptyDoc)
         /\ lastSave' = [lastSave EXCEPT !["db"][k] = DoneSave(ok, data)]
    /\ UNCHANGED <<files, environ, io, reads, vb>>
    /\ UNCHANGED trackerVars
    /\ UNCHANGED schedVars

\* save_json_file(k, data) without DATABASE_URL, line 102: open(k, "w")
\* empties the file, or raises and leaves it (the call returns False).
\* (before: what a load of k returned when the call began.)
FileOpen(p, k, data) ==
    /\ io[p].pc = "idle"
    /\ BackendOf(p) = "file"
    /\ storeCalls < MaxStoreCalls
    /\ storeCalls' = storeCalls + 1
    /\ \E ok \in SaveOutcomes :
         IF ok
         THEN /\ files' = [files EXCEPT ![k] = Truncated]
              /\ io' = [io EXCEPT ![p] =
                          [pc |-> "writing", key |-> k, data |-> data,
                           before |-> FileLoad(files[k])]]
              /\ lastSave' = [lastSave EXCEPT !["file"][k] =
                                [state |-> "writing", ok |-> FALSE,
                                 data |-> EmptyDoc]]
              /\ UNCHANGED lastCall
         ELSE /\ lastCall' = DoneIo(p, "save", k, "file", data,
                                    SaveReturn(FALSE), EmptyDoc)
              /\ lastSave' = [lastSave EXCEPT !["file"][k] = DoneSave(FALSE, data)]
              /\ UNCHANGED <<files, io>>
    /\ UNCHANGED <<db, environ, reads, vb>>
    /\ UNCHANGED trackerVars
    /\ UNCHANGED schedVars

\* save_json_file, lines 103-107: json.dump writes the text and the call
\* returns True, or raises part-way and the call returns False.
FileDump(p) ==
    /\ io[p].pc = "writing"
    /\ \E ok \in SaveOutcomes :
         /\ files' = [files EXCEPT ![io[p].key] =
                        IF ok THEN JsonDump(io[p].data) ELSE Partial(io[p].data)]
         /\ lastCall' = DoneIo(p, "save", io[p].key, "file", io[p].data,
                               SaveReturn(ok), EmptyDoc)
         /\ lastSave' = [lastSave EXCEPT !["file"][io[p].key] =
                            DoneSave(ok, io[p].data)]
    /\ io' = [io EXCEPT ![p] = NoIo]
    /\ UNCHANGED <<db, environ, storeCalls, reads, vb>>
    /\ UNCHANGED trackerVars
    /\ UNCHANGED schedVars

\* The process sets or deletes os.environ["DATABASE_URL"] between two calls.
SetEnv(p) ==
    /\ io[p].pc = "idle"
    /\ environ' = [environ EXCEPT ![p].now = ~@]
    /\ UNCHANGED <<files, db, io, lastCall, lastSave, storeCalls, reads, vb>>
    /\ UNCHANGED trackerVars
    /\ UNCHANGED schedVars

StoreNext ==
    \E p \in Procs :
        \/ \E k \in StoreKeys : StoreLoad(p, k)
        \/ \E k \in StoreKeys, data \in StoreDocs : DbSaveCall(p, k, data)
        \/ \E k \in StoreKeys, data \in StoreDocs : FileOpen(p, k, data)
        \/ FileDump(p)
        \/ SetEnv(p)

\* Two processes using the store, each started with or without
\* DATABASE_URL; a save may fail.
InitStore ==
    /\ TrackerInit({}, {{"save"}}, FALSE) /\ vb = NoVerify /\ SchedOff
    /\ files = [k \in StoreKeys |-> Missing]
    /\ db = [k \in StoreKeys |-> Missing]
    /\ environ \in {[p \in Procs |-> [start |-> e[p], now |-> e[p]]] :
                       e \in [Procs -> BOOLEAN]}
    /\ io = [p \in Procs |-> NoIo]
    /\ lastCall = NoStoreCall
    /\ lastSave = [b \in Backends |-> [k \in StoreKeys |-> NoSave]]
    /\ storeCalls = 0
    /\ reads = [p \in Procs |-> NoQuery]
SpecStore == InitStore /\ [][StoreNext]_vars

(***************************************************************************)
(* A pass of the scheduler that stops dead: the process is killed between  *)
(* two of its steps. The store is the file backend, whose save opens the   *)
(* file for writing (which empties it, line 102) and then writes the       *)
(* document (line 103); user_data is what a load of the file returns.      *)
(***************************************************************************)
\* save_json_file, line 102, called from verify_all_members, lines 67-68:
\* the member is marked in the scheduler's copy and the file is opened "w".
CronSaveOpen ==
    /\ cron.pc = "save"
    /\ user_data' = FileLoad(Truncated)
    /\ cron' = [cron EXCEPT !.pc = "dump",
                            !.user_data = MarkUnverified(cron.user_data,
                                              cron.group_id, Head(cron.users))]
    /\ UNCHANGED <<config, platform, checks, passes, bot, vb, reads>>
    /\ UNCHANGED storeVars
    /\ UNCHANGED trackerVars

\* save_json_file, lines 103-104, then verify_all_members, lines 70-71: the
\* document is written and the removal is counted.
CronSaveDump ==
    /\ cron.pc = "dump"
    /\ user_data' = FileLoad(JsonDump(cron.user_data))
    /\ cron' = [NextUser(cron) EXCEPT !.pc = "member", !.removed_count = @ + 1]
    /\ UNCHANGED <<config, platform, checks, passes, bot, vb, reads>>
    /\ UNCHANGED storeVars
    /\ UNCHANGED trackerVars

\* The scheduler process is killed where it stands.
CronCrash ==
    /\ cron.pc \notin {"ready", "done", "crashed"}
    /\ cron' = [pc |-> "crashed", from |-> cron]
    /\ UNCHANGED <<config, user_data, platform, checks, passes, bot, vb, reads>>
    /\ UNCHANGED storeVars
    /\ UNCHANGED trackerVars

InitCrash == SchedInit({{}}, BotOff, {EmptyDoc})
NextCrash ==
    \/ CronStart
    \/ CronLoadConfig
    \/ CronGroup
    \/ CronLoadUsers
    \/ CronMember
    \/ CronBan
    \/ CronUnban
    \/ CronSaveOpen
    \/ CronSaveDump
    \/ CronCrash
SpecCrash == InitCrash /\ [][NextCrash]_vars

(***************************************************************************)
(* The interactive process's writes of the configuration while a pass is   *)
(* under way: a group's requirements are edited, or the group is removed   *)
(* from the configuration.                                                 *)
(***************************************************************************)
\* The document without the key.
Without(doc, key) == [k \in DOMAIN doc \ {key} |-> doc[k]]

\* The interactive process stores other requirements for a group.
BotEditConfig ==
    /\ bot.pc = "idle"
    /\ bot.writes < MaxBotWrites
    /\ \E g \in DOMAIN config, min \in {1, 1000} :
         /\ config[g] # TestConfig(min)
         /\ config' = [config EXCEPT ![g] = TestConfig(min)]
    /\ bot' = [bot EXCEPT !.writes = @ + 1]
    /\ UNCHANGED <<user_data, cron, platform, checks, passes, vb, reads>>
    /\ UNCHANGED storeVars
    /\ UNCHANGED trackerVars

\* The interactive process removes a group from the configuration.
BotDeleteConfig ==
    /\ bot.pc = "idle"
    /\ bot.writes < MaxBotWrites
    /\ \E g \in DOMAIN config : config' = Without(config, g)
    /\ bot' = [bot EXCEPT !.writes = @ + 1]
    /\ UNCHANGED <<user_data, cron, platform, checks, passes, vb, reads>>
    /\ UNCHANGED storeVars
    /\ UNCHANGED trackerVars

\* The scheduler with the configuration being written; store and platform
\* reliable.
InitConfig == SchedInit({{}}, [pc |-> "idle", writes |-> 0], {EmptyDoc})
NextConfig == CronNext \/ BotEditConfig \/ BotDeleteConfig
SpecConfig == InitConfig /\ [][NextConfig]_vars

(***************************************************************************)
(* A pass of the scheduler with the primary provider configured, the call  *)
(* of the provider and its answer as separate steps: verify_user_balance   *)
(* awaits get_token_balance_moralis, which awaits the SDK call in a thread *)
(* (verification.py lines 146-150); the answer may never come.             *)
(***************************************************************************)
\* The answers of the providers in these passes: the primary one configured.
HangEnvs ==
    {env \in ProviderEnvs :
        /\ env.key = 51
        /\ env.moralis.status = "error" \/ env.moralis.raw = 150
        /\ env.ethKey
        /\ env.etherscan.status = "ok" /\ env.etherscan.raw \in {0, 150}
        /\ env.decimals.status = "ok" /\ env.decimals.value = 2}

\* The loop of verify_all_members is at a member whose balance is checked:
\* not the owner, stored as verified.
NeedsCheck(c) ==
    /\ c.pc = "member" /\ c.users # << >>
    /\ ~IsOwner(IntOf(Head(c.users)))
    /\ IsVerified(c.user_data[c.group_id][Head(c.users)])

\* verify_all_members, lines 47-53: the end of the members, the owner, a
\* member not verified.
CronMemberSkip == ~NeedsCheck(cron) /\ CronMember

\* verify_all_members, line 57, verify_user_balance, line 209, and
\* get_token_balance_moralis, lines 146-150: the primary provider is called
\* and the scheduler awaits the answer.
CronVerifyCall ==
    /\ NeedsCheck(cron)
    /\ vb.pc = "idle"
    /\ \E env \in HangEnvs, hangs \in BOOLEAN :
         vb' = [pc |-> "primary", env |-> env, hangs |-> hangs]
    /\ UNCHANGED trackerVars
    /\ UNCHANGED schedVars
    /\ UNCHANGED reads
    /\ UNCHANGED storeVars

\* The primary provider answers (or the SDK raises), unless the call hangs.
PrimaryResponds ==
    /\ vb.pc = "primary" /\ ~vb.hangs
    /\ vb' = [vb EXCEPT !.pc = "responded"]
    /\ UNCHANGED trackerVars
    /\ UNCHANGED schedVars
    /\ UNCHANGED reads
    /\ UNCHANGED storeVars

\* verify_user_balance, lines 217-227, and verify_all_members, lines 59 and
\* 75-77: with the primary answer in, the fallback if needed, the comparison,
\* and the member counted or its removal begun.
CronVerifyReturn ==
    /\ vb.pc = "responded"
    /\ LET has_balance == VerifyUserBalance(cron.group_config, vb.env)
           user_id == Head(cron.users)
       IN /\ checks' = Append(checks,
                 [group_id |-> cron.group_id, user_id |-> user_id,
                  address |-> cron.user_data[cron.group_id][user_id].address,
                  has_balance |-> has_balance])
          /\ cron' = IF has_balance THEN AfterCompliant(cron)
                     ELSE [cron EXCEPT !.pc = "ban"]
    /\ vb' = NoVerify
    /\ UNCHANGED <<config, user_data, platform, passes, bot, reads>>
    /\ UNCHANGED storeVars
    /\ UNCHANGED trackerVars

InitHang == SchedInit({{}}, BotOff, {EmptyDoc})
NextHang ==
    \/ CronStart
    \/ CronLoadConfig
    \/ CronGroup
    \/ CronLoadUsers
    \/ CronMemberSkip
    \/ CronVerifyCall
    \/ PrimaryResponds
    \/ CronVerifyReturn
    \/ CronBan
    \/ CronUnban
    \/ CronSave
\* The event loop runs the scheduler whenever it has a step to take, and a
\* provider that is going to answer does answer.
SpecHang == InitHang /\ [][NextHang]_vars /\ WF_vars(NextHang)

(***************************************************************************)
(* Calls of track_rejection with and without metadata, on records that     *)
(* are already in the store, the clock advancing between calls.            *)
(***************************************************************************)
\* The latest time of the clock.
MaxNow == 2

\* The metadata a caller passes, None when omitted.
MetaNames == {NoneVal, "N2"}
MetaAdmins == {NoneVal, "A2"}

\* time.time() has advanced.
Tick ==
    /\ now < MaxNow
    /\ now' = now + 1
    /\ UNCHANGED <<rejected, faults, procs, tr, last, hist, calls, wasReset, vb, reads>>
    /\ UNCHANGED storeVars
    /\ UNCHANGED schedVars

\* The records of g1 found in the store: written at time 0, with or without
\* metadata.
StoredRecords ==
    [rejection_count : 0..BlockThreshold, blocked : BOOLEAN,
     group_name : {"N1"}, last_admin_id : {NoneVal, "A1"},
     last_admin_name : {"Unknown", "A1"},
     first_rejection : {0}, last_rejection : {0}]
\* Those that track_rejection and reset_rejection_count write.
ConsistentRecords ==
    {r \in StoredRecords :
        /\ r.blocked = (r.rejection_count >= BlockThreshold)
        /\ (r.last_admin_id = NoneVal) = (r.last_admin_name = "Unknown")}
DocsOf(records) == {EmptyDoc} \cup {[g \in {"g1"} |-> r] : r \in records}

MetaInit(docs) ==
    /\ hist = FALSE
    /\ rejected \in docs
    /\ now = 1
    /\ faults = {}
    /\ procs = {"p1"}
    /\ tr = [p \in Procs |-> Idle]
    /\ last = [p \in Procs |-> NoCall]
    /\ calls = [g \in Groups |-> 0]
    /\ wasReset = [g \in Groups |-> FALSE]
    /\ vb = NoVerify /\ SchedOff /\ StoreOff

NextMeta ==
    \/ \E p \in procs :
          \/ \E g \in Groups : TrackLoadWith(p, g, MetaNames, MetaAdmins)
          \/ TrackSave(p)
          \/ \E g \in Groups : ResetLoad(p, g)
          \/ ResetSave(p)
    \/ Tick

\* One process, the store holding a document its own calls have written.
InitMeta == MetaInit(DocsOf(ConsistentRecords))
SpecMeta == InitMeta /\ [][NextMeta]_vars

\* One process, the store holding a document written by whatever wrote it:
\* blocked and rejection_count of a record need not agree.
InitAnyRecord == MetaInit(DocsOf(StoredRecords))
SpecAnyRecord == InitAnyRecord /\ [][NextMeta]_vars

(***************************************************************************)
(* The scheduler run twice over the same store, the platform failing at    *)
(* times; the logs of platform calls and checks cover both passes.         *)
(***************************************************************************)
\* The cron service starts main() once more.
CronStartAgain == CronStartWith(MaxPasses + 1, TRUE)

\* Only g1 is configured, with a min_balance no member has.
InitRepeat ==
    /\ SchedInit({{"platform"}}, BotOff, {EmptyDoc})
    /\ DOMAIN config = {"g1"}
NextRepeat ==
    \/ CronStartAgain
    \/ CronLoadConfig
    \/ CronGroup
    \/ CronLoadUsers
    \/ CronMember
    \/ CronBan
    \/ CronUnban
    \/ CronSave
SpecRepeat == InitRepeat /\ [][NextRepeat]_vars

\* One process calling the tracker; a save may fail.
InitFail == TrackerInit({"p1"}, {{"save"}}, FALSE) /\ vb = NoVerify /\ SchedOff /\ StoreOff
SpecFail == InitFail /\ [][TrackerNext]_vars

(***************************************************************************)
(* user_data holding member records the scheduler cannot process.          *)
(***************************************************************************)
\* A record marked verified that has no address.
NoAddressRecord ==
    [verified |-> TRUE, last_verified |-> 1, verification_tx |-> "0xT"]

\* g1 may have a member under a key that is no number, and records without
\* address.
BadUserData ==
    { [g \in {"g1", "g2"} |-> IF g = "g1" THEN m1 ELSE m2] :
        m1 \in UNION { [K -> UserRecords \cup {NoAddressRecord}] :
                         K \in SUBSET {"x", "8", "9"} },
        m2 \in MemberDocs({"8"}) }

\* One scheduler process alone; store and platform reliable.
InitBad == SchedInitWith({{}}, BotOff, {EmptyDoc}, BadUserData)
SpecBad == InitBad /\ [][CronNext]_vars

Init == InitRej
Next == TrackerNext
Spec == Init /\ [][Next]_vars

(***************************************************************************)
(* Properties of the rejection tracker.                                    *)
(***************************************************************************)
\* The step is the completion of a reset_rejection_count on g.
ResetStep(g) ==
    \E p \in Procs : /\ tr[p].pc = "save" /\ tr[p].op = "reset" /\ tr[p].g = g
                     /\ tr'[p].pc = "idle"

\* The step is the completion of a track_rejection on g by p.
TrackStep(p, g) ==
    /\ tr[p].pc = "save" /\ tr[p].op = "track" /\ tr[p].g = g
    /\ tr'[p].pc = "idle"

\* C1: in every state of the stored rejected_groups document reached by
\* track_rejection and reset_rejection_count calls of the two processes,
\* their loads and saves interleaving, every record has
\* blocked = (rejection_count >= 3).
C1_BlockedIffThreeStrikes ==
    \A g \in DOMAIN rejected :
        rejected[g].blocked = (rejected[g].rejection_count >= BlockThreshold)

\* A blocked record and a reset record are stored while a call of one
\* process is between its load and its save.
C1_Witness ==
    \E g \in DOMAIN rejected, h \in DOMAIN rejected, p \in Procs :
        /\ rejected[g].rejection_count > BlockThreshold /\ rejected[g].blocked
        /\ rejected[h].rejection_count = 0 /\ ~rejected[h].blocked
        /\ tr[p].pc = "save"

\* C2: for a group that was fresh and calls made one after the other by
\* one process, after the k-th track_rejection the stored count is k, the
\* group is blocked iff k >= 3, and the k-th call returned (k >= 3).
C2_KthStrike ==
    \A g \in Groups :
        ~wasReset[g] =>
            /\ GetRejectionCount(rejected, g) = calls[g]
            /\ IsGroupBlocked(rejected, g) = (calls[g] >= 3)
            /\ (last["p1"].op = "track" /\ last["p1"].g = g)
                   => last["p1"].ret = (calls[g] >= 3)

\* The third call on a fresh group has returned true.
C2_Witness ==
    \E g \in Groups :
        /\ ~wasReset[g] /\ calls[g] = 3
        /\ last["p1"].op = "track" /\ last["p1"].g = g /\ last["p1"].ret
        /\ IsGroupBlocked(rejected, g)

\* C4: once a group's stored blocked flag is true it is true in every
\* later stored state until a reset_rejection_count for that group
\* completes, in every execution of the two processes.
C4_BlockedUntilReset ==
    [][\A g \in Groups :
          (IsGroupBlocked(rejected, g) /\ ~ResetStep(g))
              => IsGroupBlocked(rejected', g)]_vars

\* C5: a track_rejection of g that saves while the store holds a count of g
\* greater than the one the call loaded stores the loaded count plus one:
\* the increments stored since its load are lost, and when the other
\* process stored one increment in between, the two calls together have
\* raised the count by 1, not 2.
C5_LostIncrement ==
    [][\A p \in Procs, g \in Groups :
          (/\ TrackStep(p, g)
           /\ rejected' # rejected \/ rejected = tr[p].doc
           /\ GetRejectionCount(rejected, g) > GetRejectionCount(tr[p].base, g))
              => /\ GetRejectionCount(rejected', g)
                      = GetRejectionCount(tr[p].base, g) + 1
                 /\ GetRejectionCount(rejected', g)
                      <= GetRejectionCount(rejected, g)]_vars

\* Both calls loaded the same document; the other process has saved its
\* increment and this one is about to save.
C5_Witness ==
    \E p \in Procs, q \in Procs, g \in Groups :
        /\ p # q /\ tr[q].pc = "idle"
        /\ tr[p].pc = "save" /\ tr[p].op = "track" /\ tr[p].g = g
        /\ g \in DOMAIN tr[p].base
        /\ GetRejectionCount(rejected, g) = GetRejectionCount(tr[p].base, g) + 1
        /\ rejected = tr[p].doc

\* C6: after a reset of a blocked group the count is 0 and the group is
\* not blocked, and the group starts a fresh cycle: the k-th
\* track_rejection after the reset stores count k, returns (k >= 3) and
\* blocks the group exactly at k = 3.
C6_FreshCycleAfterReset ==
    \A g \in Groups :
        wasReset[g] =>
            /\ GetRejectionCount(rejected, g) = calls[g]
            /\ IsGroupBlocked(rejected, g) = (calls[g] >= 3)
            /\ (last["p1"].op = "track" /\ last["p1"].g = g)
                   => last["p1"].ret = (calls[g] >= 3)
            /\ (last["p1"].op = "reset" /\ last["p1"].g = g)
                   => /\ last["p1"].ret
                      /\ GetRejectionCount(rejected, g) = 0
                      /\ ~IsGroupBlocked(rejected, g)

\* A group reset while blocked is blocked again by its third strike.
C6_Witness ==
    \E g \in Groups :
        /\ wasReset[g] /\ calls[g] = 3 /\ IsGroupBlocked(rejected, g)
        /\ last["p1"].op = "track" /\ last["p1"].g = g /\ last["p1"].ret

(***************************************************************************)
(* Properties of the balance verifier.                                     *)
(***************************************************************************)
\* The primary provider gave nothing usable: the key is absent or not
\* longer than 50, the call raised, the token was not in the answer, or the
\* balance is zero.
PrimaryUnusable(env) ==
    \/ env.key <= 50
    \/ env.moralis.status # "ok"
    \/ env.moralis.raw = 0

\* The secondary provider failed: no key, or the call raised.
SecondaryFailed(env) ==
    ~env.ethKey \/ env.etherscan.status = "error"

\* C10 as stated: for every min_balance >= 0, min_balance = 0 included, if
\* the primary provider gave nothing usable and the secondary failed,
\* verify_user_balance returns false.
C10_BothFailFalse ==
    (/\ vb.pc = "returned"
     /\ vb.group_config.kind = "ok"
     /\ PrimaryUnusable(vb.env) /\ SecondaryFailed(vb.env))
        => vb.result = FALSE

\* Under the same failures verify_user_balance never raises and returns
\* false exactly when the configuration is malformed or the threshold is
\* positive: the balance 0.0 it falls back to is >= 0.
C10_FalseExactlyAboveZero ==
    (/\ vb.pc = "returned"
     /\ PrimaryUnusable(vb.env) /\ SecondaryFailed(vb.env))
        => vb.result = (vb.group_config.kind = "ok"
                        /\ vb.group_config.min_balance.num = 0)

\* The providers called by the verify_user_balance call made.
ProvidersCalled == {vb.calls[i].provider : i \in DOMAIN vb.calls}

\* C11: whenever the primary provider returns a balance greater than zero,
\* verify_user_balance returns balance >= min_balance, equality counting as
\* compliant, and the secondary provider is not invoked, also when the
\* positive balance is below min_balance.
C11_PrimaryPositiveAuthoritative ==
    (/\ vb.pc = "returned"
     /\ vb.group_config.kind = "ok"
     /\ vb.env.key > 50
     /\ vb.env.moralis.status = "ok" /\ vb.env.moralis.raw > 0)
        => /\ vb.result =
                (vb.env.moralis.raw * vb.group_config.min_balance.den
                    >= vb.group_config.min_balance.num * Pow10(vb.env.moralis.dec))
           /\ "moralis" \in ProvidersCalled
           /\ "etherscan" \notin ProvidersCalled
           /\ "decimals" \notin ProvidersCalled

\* The primary provider returned 100 / 10^2 = 1.0, below the threshold 1.5
\* that the secondary provider's 150 / 10^2 would have met: the call returned
\* false without asking the secondary provider.
C11_Witness ==
    /\ vb.pc = "returned"
    /\ vb.group_config.kind = "ok"
    /\ vb.group_config.min_balance = [num |-> 3, den |-> 2]
    /\ vb.env.key > 50
    /\ vb.env.moralis = [status |-> "ok", raw |-> 100, dec |-> 2]
    /\ vb.env.ethKey
    /\ vb.env.etherscan = [status |-> "ok", raw |-> 150]
    /\ vb.env.decimals = [status |-> "ok", value |-> 2]
    /\ vb.result = FALSE
    /\ "etherscan" \notin ProvidersCalled

\* C12: whenever the primary provider is not configured, has a key of length
\* <= 50, raises or returns zero, verify_user_balance asks the secondary
\* provider and, with its raw balance, returns raw / 10^decimals >=
\* min_balance, decimals being the token's resolved precision, 18 when it
\* cannot be discovered.
C12_FallbackUsesDecimals ==
    (/\ vb.pc = "returned"
     /\ vb.group_config.kind = "ok"
     /\ PrimaryUnusable(vb.env)
     /\ vb.env.ethKey /\ vb.env.etherscan.status = "ok")
        => LET raw == vb.env.etherscan.raw
               decimals == IF vb.env.decimals.status = "ok"
                           THEN vb.env.decimals.value ELSE 18
               min_balance == vb.group_config.min_balance
           IN /\ "etherscan" \in ProvidersCalled
              /\ "decimals" \in ProvidersCalled
              /\ vb.result =
                    IF decimals > MaxExp
                    THEN min_balance.num = 0
                    ELSE raw * min_balance.den >= min_balance.num * Pow10(decimals)

\* The primary provider raised, the secondary one returned raw = 150, the
\* precision was resolved to 2 and the threshold is 1.0: the call returned
\* true.
C12_Witness ==
    /\ vb.pc = "returned"
    /\ vb.group_config.kind = "ok"
    /\ vb.group_config.min_balance = [num |-> 1, den |-> 1]
    /\ vb.env.key > 50 /\ vb.env.moralis.status = "error"
    /\ vb.env.ethKey
    /\ vb.env.etherscan = [status |-> "ok", raw |-> 150]
    /\ vb.env.decimals = [status |-> "ok", value |-> 2]
    /\ vb.result = TRUE

(***************************************************************************)
(* Properties of the scheduler.                                            *)
(***************************************************************************)
\* The platform calls of kind op made for a member of a group.
CallsFor(op, group_id, user_id) ==
    {i \in DOMAIN platform :
        /\ platform[i].op = op /\ platform[i].chat_id = group_id
        /\ platform[i].user_id = IntOf(user_id)}

\* The checks of a member of a group.
ChecksFor(group_id, user_id) ==
    {i \in DOMAIN checks :
        checks[i].group_id = group_id /\ checks[i].user_id = user_id}

\* C3: while a group is blocked the scheduler makes no remove-member call
\* (ban or unban) in that group and writes verified=false for none of its
\* members.
C3_NoEnforcementInBlockedGroup ==
    \A i \in DOMAIN platform : ~IsGroupBlocked(rejected, platform[i].chat_id)

\* C7: at the end of a pass, every non-owner member of a configured group
\* that was stored verified and for whom verify_user_balance returned false
\* is stored with verified = false and was removed exactly once (one ban,
\* one unban); a non-owner member still stored verified was checked and
\* found compliant.
C7_RemovedOnceAndUnverified ==
    cron.pc = "done" =>
        /\ \A i \in DOMAIN checks :
              LET g == checks[i].group_id
                  u == checks[i].user_id
              IN ~checks[i].has_balance =>
                    /\ user_data[g][u].verified = FALSE
                    /\ Cardinality(CallsFor("ban", g, u)) = 1
                    /\ Cardinality(CallsFor("unban", g, u)) = 1
                    /\ Cardinality(ChecksFor(g, u)) = 1
        /\ \A g \in DOMAIN config \cap DOMAIN user_data :
              \A u \in DOMAIN user_data[g] :
                 (~IsOwner(IntOf(u)) /\ user_data[g][u].verified)
                    => \E i \in ChecksFor(g, u) : checks[i].has_balance

\* A pass has ended in which a verified member of g1 (min_balance 1000) was
\* found short of balance and removed.
C7_Witness ==
    /\ cron.pc = "done"
    /\ config["g1"].min_balance.num = 1000
    /\ \E i \in DOMAIN checks :
          /\ checks[i].group_id = "g1" /\ checks[i].user_id = "8"
          /\ ~checks[i].has_balance
    /\ user_data["g1"]["8"].verified = FALSE
    /\ CallsFor("ban", "g1", "8") # {}

LoadStep ==
    /\ storeCalls' # storeCalls /\ io' = io
    /\ lastCall'.op = "load"

\* The step is the return of a save_json_file call.
SaveReturnStep ==
    /\ lastCall'.op = "save"
    /\ \/ storeCalls' # storeCalls /\ io' = io
       \/ \E p \in Procs : io[p].pc = "writing" /\ io'[p].pc = "idle"

\* What a backend holds for a resource.
Stored(b, k) == IF b = "db" THEN db[k] ELSE files[k]

C14_LoadOfUnreadableIsEmpty ==
    [][LoadStep =>
          LET content == Stored(lastCall'.backend, lastCall'.key)
              doc == lastCall'.doc
          IN /\ lastCall'.ret
             /\ ~Parses(content) =>
                   /\ doc = EmptyDoc
                   /\ \A g \in Groups :
                         /\ GetRejectionCount(doc, g) = 0
                         /\ ~IsGroupBlocked(doc, g)
                         /\ Get(doc, g, EmptyDoc) = EmptyDoc
                   /\ InOrder(GroupOrder, DOMAIN doc) = << >>]_vars

\* A save of rejected_groups with g1 blocked failed part-way, and the load
\* of the file that followed returned {}.
C14_Witness ==
    /\ lastCall.op = "load" /\ lastCall.backend = "file"
    /\ lastCall.key = "rejected_groups.json"
    /\ files["rejected_groups.json"] = Partial(BlockedG1)
    /\ lastCall.doc = EmptyDoc

\* C15: save never raises: it returns true when the document was written
\* (the store then holds it) and false on any write failure.
C15_SaveReturnsSuccess ==
    [][SaveReturnStep =>
          LET b == lastCall'.backend
              k == lastCall'.key
          IN /\ lastCall'.ret = lastSave'[b][k].ok
             /\ lastCall'.ret =>
                   (IF b = "db" THEN db'[k] ELSE files'[k]) = JsonDump(lastCall'.data)]_vars

\* A save to the file backend failed while writing and returned false.
C15_Witness ==
    /\ lastCall.op = "save" /\ lastCall.backend = "file"
    /\ ~lastCall.ret
    /\ files[lastCall.key] = Partial(lastCall.data)

\* C16: every load and save of a process uses the backend selected by the
\* presence of DATABASE_URL when the process started, also after
\* DATABASE_URL was set or removed later.
C16_BackendFrozenAtStart ==
    lastCall.op # "none" => lastCall.backend = BackendAtStart(lastCall.p)

(***************************************************************************)
(* Properties of reset_rejection_count on a group without a record and of  *)
(* the read-only calls of the tracker.                                     *)
(***************************************************************************)
\* C17: reset_rejection_count on a group that has no record returns true,
\* performs no save, creates no record and leaves the rejected_groups
\* document exactly as it was.
C17_ResetWithoutRecord ==
    [][\A p \in Procs, g \in Groups :
          (/\ tr[p].pc = "save" /\ tr[p].op = "reset" /\ tr[p].g = g
           /\ tr'[p].pc = "idle"
           /\ g \notin DOMAIN rejected)
             => /\ last'[p].op = "reset" /\ last'[p].g = g
                /\ last'[p].ret = TRUE
                /\ last'[p].saved = FALSE
                /\ rejected' = rejected
                /\ g \notin DOMAIN rejected']_vars

\* reset_rejection_count("g2") returned true without a save while the
\* document holds a record of g1 only.
C17_Witness ==
    /\ last["p1"] = [op |-> "reset", g |-> "g2", ret |-> TRUE, saved |-> FALSE]
    /\ DOMAIN rejected = {"g1"}
    /\ rejected["g1"].rejection_count = 2

\* The step is a read-only call of process p that returned something new.
ReadStep(p) == reads'[p] # reads[p]

\* C18: get_blocked_groups returns exactly the entries of the document whose
\* blocked field is true, same keys and same records, and
\* get_all_rejections returns the whole document.
C18_BlockedGroupsIsFilter ==
    [][\A p \in Procs :
          ReadStep(p) =>
             /\ reads'[p].op = "get_blocked_groups" =>
                   /\ DOMAIN reads'[p].doc
                         = {g \in DOMAIN rejected : rejected[g].blocked}
                   /\ \A g \in DOMAIN reads'[p].doc :
                         reads'[p].doc[g] = rejected[g]
             /\ reads'[p].op = "get_all_rejections" =>
                   reads'[p].doc = rejected]_vars

\* get_blocked_groups returned the record of g1 alone from a document that
\* holds a blocked g1 and a g2 that is not blocked.
C18_Witness ==
    /\ reads["p2"].op = "get_blocked_groups"
    /\ DOMAIN reads["p2"].doc = {"g1"}
    /\ DOMAIN rejected = {"g1", "g2"}
    /\ rejected["g1"].blocked /\ ~rejected["g2"].blocked
    /\ reads["p2"].doc["g1"] = rejected["g1"]

\* C19: is_group_blocked and get_rejection_count write nothing: every
\* stored document is the same before and after the call; a group without
\* a record gives false and 0; the result is determined by the stored
\* document, so a repeated call with no mutation in between returns the
\* same.
C19_ReadsArePure ==
    [][\A p \in Procs :
          ReadStep(p) =>
             /\ rejected' = rejected /\ config' = config
             /\ user_data' = user_data /\ files' = files /\ db' = db
             /\ reads'[p].op = "is_group_blocked" =>
                   reads'[p].blocked =
                      (/\ reads'[p].g \in DOMAIN rejected
                       /\ rejected[reads'[p].g].blocked)
             /\ reads'[p].op = "get_rejection_count" =>
                   reads'[p].count =
                      IF reads'[p].g \in DOMAIN rejected
                      THEN rejected[reads'[p].g].rejection_count ELSE 0]_vars

\* is_group_blocked("g2") returned false for a document that holds a record
\* of the blocked g1 and none of g2.
C19_Witness ==
    /\ reads["p2"].op = "is_group_blocked" /\ reads["p2"].g = "g2"
    /\ ~reads["p2"].blocked
    /\ DOMAIN rejected = {"g1"}
    /\ rejected["g1"].blocked

(***************************************************************************)
(* Properties of a pass in which platform calls fail.                      *)
(***************************************************************************)
\* The step is a ban_chat_member or unban_chat_member call that raised.
RemovalFailedStep ==
    /\ Len(platform') = Len(platform) + 1
    /\ ~platform'[Len(platform')].ok

\* C20: a failed remove-member call is counted as an error and the loop
\* goes on with the next member of the group; at the end of the pass every
\* group of the configuration was processed and every non-owner member
\* stored as verified had the balance checked.
C20_RemovalFailureDoesNotAbort ==
    /\ [][RemovalFailedStep =>
             /\ cron'.pc = "member"
             /\ cron'.error_count = cron.error_count + 1
             /\ cron'.removed_count = cron.removed_count
             /\ cron'.users = Tail(cron.users)
             /\ cron'.groups = cron.groups]_vars
    /\ [](cron.pc = "done" =>
            \A g \in DOMAIN config \cap DOMAIN user_data :
               \A u \in DOMAIN user_data[g] :
                  (~IsOwner(IntOf(u)) /\ user_data[g][u].verified)
                     => ChecksFor(g, u) # {})

\* A pass has ended in which the ban of member 8 of g1 failed and, after it,
\* member 9 of g1 and member 8 of g2 were checked.
C20_Witness ==
    /\ cron.pc = "done"
    /\ \E i \in CallsFor("ban", "g1", "8") :
          /\ ~platform[i].ok
          /\ \E j \in ChecksFor("g1", "8"), k \in ChecksFor("g1", "9"),
                l \in ChecksFor("g2", "8") : j < k /\ k < l

Revoked ==
    {m \in Groups \X UserKeys :
        \E i \in CallsFor("ban", m[1], m[2]) : platform[i].ok}

\* The member whose removal the scheduler with locals c is in the middle of.
InFlight(c) ==
    IF c.pc \in {"ban", "unban", "save", "dump"}
    THEN {<<c.group_id, Head(c.users)>>} ELSE {}

\* The member has a record in the stored user_data with this verified flag.
StoredVerified(m, flag) ==
    /\ m[1] \in DOMAIN user_data /\ m[2] \in DOMAIN user_data[m[1]]
    /\ user_data[m[1]][m[2]].verified = flag

\* C22: when the scheduler process has crashed at some point of a pass, every
\* member whose removal was completed before the crash is stored with
\* verified = false, and only the member in flight at the crash can be
\* revoked on the platform while stored with verified = true.
C22_CrashKeepsCompletedRemovals ==
    cron.pc = "crashed" =>
        /\ \A m \in Revoked \ InFlight(cron.from) : StoredVerified(m, FALSE)
        /\ \A m \in Revoked : StoredVerified(m, TRUE) => m \in InFlight(cron.from)

\* The step starts the processing of a group: verify_all_members is called
\* with a GroupConfig.
GroupBeginsStep == cron.pc = "group" /\ cron'.pc = "users"

\* C23: the GroupConfig with which the processing of a group begins is the
\* group's configuration in the store at that moment, also when the
\* interactive process edited or deleted it after the start of the cycle; a
\* copy read at the start of the cycle is never used in its place.
C23_GroupConfigIsFresh ==
    [][GroupBeginsStep =>
          /\ cron'.group_id \in DOMAIN config
          /\ cron'.group_config = config[cron'.group_id]]_vars

\* The same for the groups that still have a configuration in the store.
C23_FreshWhenStillConfigured ==
    [][(GroupBeginsStep /\ cron'.group_id \in DOMAIN config)
          => cron'.group_config = config[cron'.group_id]]_vars

\* The platform call at position i revoked a membership.
IsRevoke(i) == platform[i].op = "ban" /\ platform[i].ok

\* The call is the allow-rejoin for the member revoked by the call before.
RejoinFor(call, revoke) ==
    /\ call.op = "unban"
    /\ call.chat_id = revoke.chat_id /\ call.user_id = revoke.user_id

Metadata(r) ==
    <<r.group_name, r.last_admin_id, r.last_admin_name, r.first_rejection,
      r.last_rejection>>

\* C25: a group that has a record in the stored rejected_groups document has
\* one in every later stored version, whatever track_rejection and
\* reset_rejection_count calls the two processes make and however their
\* loads and saves interleave; a reset of the group leaves the record's
\* group_name, admin fields and timestamps as they were.
C25_RecordsNeverRemoved ==
    [][\A g \in DOMAIN rejected :
          /\ g \in DOMAIN rejected'
          /\ ResetStep(g) => Metadata(rejected'[g]) = Metadata(rejected[g])]_vars

(***************************************************************************)
(* Progress of a pass.                                                     *)
(***************************************************************************)
\* C26: a call of the primary provider that is awaited is eventually over
\* (answered, failed or given up), also when the provider never answers,
\* and a pass that has reached the members of a group eventually ends.
C26_ProviderCallsBounded ==
    /\ (vb.pc = "primary") ~> (vb.pc = "idle")
    /\ (cron.pc = "member") ~> (cron.pc = "done")

\* C27: after a track_rejection on a group, whatever record of the group was
\* stored before (one with blocked true and a count below 2 included), the
\* stored record has blocked = (rejection_count >= 3).
C27_TrackRecomputesBlocked ==
    [][\A p \in Procs, g \in Groups :
          TrackStep(p, g) =>
             rejected'[g].blocked = (rejected'[g].rejection_count >= BlockThreshold)]_vars

\* The metadata fields of a rejection record, by the name of the argument
\* of track_rejection that sets each.
MetaField(r, arg) ==
    CASE arg = "group_name" -> r.group_name
      [] arg = "admin_id" -> r.last_admin_id
      [] arg = "admin_name" -> r.last_admin_name
MetaArgNames == {"group_name", "admin_id", "admin_name"}

\* C28: a track_rejection on a group that has a stored record leaves each
\* metadata field whose argument was omitted as it was stored, stores None
\* in no field that held a value, and leaves first_rejection as stored;
\* every track_rejection sets last_rejection to the time of the call.
C28_OmittedMetadataKept ==
    [][\A p \in Procs, g \in Groups :
          TrackStep(p, g) =>
             /\ rejected'[g].last_rejection = tr[p].args.current_time
             /\ g \in DOMAIN rejected =>
                   /\ rejected'[g].first_rejection = rejected[g].first_rejection
                   /\ \A arg \in MetaArgNames :
                         /\ tr[p].args[arg] = NoneVal =>
                               MetaField(rejected'[g], arg) = MetaField(rejected[g], arg)
                         /\ MetaField(rejected[g], arg) # NoneVal =>
                               MetaField(rejected'[g], arg) # NoneVal]_vars

\* The record of g1, stored at time 0 with a name and an admin, has had a
\* rejection tracked at time 2 by a call that passed no metadata.
C28_Witness ==
    /\ tr["p1"].pc = "idle"
    /\ "g1" \in DOMAIN rejected
    /\ rejected["g1"].group_name = "N1"
    /\ rejected["g1"].last_admin_id = "A1" /\ rejected["g1"].last_admin_name = "A1"
    /\ rejected["g1"].first_rejection = 0
    /\ rejected["g1"].last_rejection = 2

(***************************************************************************)
(* Who is checked and who is removed.                                      *)
(***************************************************************************)
\* The member the loop of verify_all_members is at, in the snapshot of
\* user_data loaded for the group, is not the owner and is verified, and
\* the store has it verified too.
EligibleInSnapshot ==
    LET u == Head(cron.users)
        g == cron.group_id
    IN /\ ~IsOwner(IntOf(u))
       /\ cron.user_data[g][u].verified
       /\ user_data[g][u].verified

\* C29: a platform call (ban, unban) is made for a member only if in the
\* snapshot loaded for the group the member is not the owner and has
\* verified = true, and the last call of verify_user_balance, made in this
\* pass for this member's address, returned false; verify_user_balance is
\* called only for members that the snapshot has as verified: a member
\* stored with verified = false is neither checked nor removed.
C29_RemoveOnlyVerifiedAndShort ==
    /\ [][Len(platform') > Len(platform) =>
             LET call == platform'[Len(platform')]
                 u == Head(cron.users)
             IN /\ Len(platform') = Len(platform) + 1
                /\ call.chat_id = cron.group_id /\ call.user_id = IntOf(u)
                /\ EligibleInSnapshot
                /\ checks # << >>
                /\ checks[Len(checks)] =
                      [group_id |-> cron.group_id, user_id |-> u,
                       address |-> cron.user_data[cron.group_id][u].address,
                       has_balance |-> FALSE]]_vars
    /\ [][Len(checks') > Len(checks) =>
             LET check == checks'[Len(checks')]
             IN /\ Len(checks') = Len(checks) + 1
                /\ cron.pc = "member"
                /\ check.group_id = cron.group_id
                /\ check.user_id = Head(cron.users)
                /\ check.address =
                      cron.user_data[cron.group_id][check.user_id].address
                /\ EligibleInSnapshot]_vars

\* A pass has ended in which member 8 of g1, stored as not verified, was
\* neither checked nor touched on the platform, and member 9 of g1, stored
\* as verified, was checked and revoked.
C29_Witness ==
    /\ cron.pc = "done"
    /\ "8" \in DOMAIN user_data["g1"] /\ ~user_data["g1"]["8"].verified
    /\ ChecksFor("g1", "8") = {}
    /\ CallsFor("ban", "g1", "8") = {}
    /\ \E i \in ChecksFor("g1", "9") : ~checks[i].has_balance
    /\ \E i \in CallsFor("ban", "g1", "9") : platform[i].ok

\* C30: at the end of a pass every member whose membership was revoked on
\* the platform during the pass is stored with verified = false, also when
\* the allow-rejoin call or the save of user_data failed.
C30_RevokedAreStoredUnverified ==
    cron.pc = "done" => \A m \in Revoked : StoredVerified(m, FALSE)

(***************************************************************************)
(* A revoke that fails.                                                    *)
(***************************************************************************)
\* The step is a ban_chat_member that raised.
RevokeFailedStep ==
    /\ Len(platform') = Len(platform) + 1
    /\ platform'[Len(platform')].op = "ban"
    /\ ~platform'[Len(platform')].ok

\* The platform calls at these positions are for this member.
CallIsFor(i, m) ==
    platform[i].chat_id = m[1] /\ platform[i].user_id = IntOf(m[2])

\* C31: a ban that fails changes nothing for the member: the scheduler's copy
\* and the store keep verified = true, nothing is saved, removed_count stays
\* and the loop goes on; as long as no later ban of the member succeeds
\* the store has the member verified, and no unban is called after the
\* failed ban; and a member stored as verified at the end of a pass was
\* checked in every pass so far, the pass after a failed ban included.
C31_FailedRevokeChangesNothing ==
    /\ [][RevokeFailedStep =>
             LET g == cron.group_id
                 u == Head(cron.users)
             IN /\ cron.user_data[g][u].verified /\ user_data[g][u].verified
                /\ user_data' = user_data
                /\ cron'.user_data = cron.user_data
                /\ cron'.removed_count = cron.removed_count
                /\ cron'.error_count = cron.error_count + 1
                /\ cron'.pc = "member" /\ cron'.users = Tail(cron.users)]_vars
    /\ [](\A m \in Groups \X {"8", "9"} : \A i \in DOMAIN platform :
            (/\ CallIsFor(i, m) /\ platform[i].op = "ban" /\ ~platform[i].ok
             /\ \A j \in DOMAIN platform :
                   (j > i /\ CallIsFor(j, m) /\ platform[j].op = "ban")
                      => ~platform[j].ok)
               => /\ StoredVerified(m, TRUE)
                  /\ i < Len(platform) => platform[i + 1].op = "ban")
    /\ [](cron.pc = "done" =>
            \A m \in Groups \X {"8", "9"} :
               (m[1] \in DOMAIN config /\ StoredVerified(m, TRUE))
                  => Cardinality(ChecksFor(m[1], m[2])) = passes)

\* Two passes have been made: in the first the ban of member 8 of g1 failed,
\* in the second the member was checked again and removed.
C31_Witness ==
    /\ cron.pc = "done" /\ passes = 2
    /\ Cardinality(ChecksFor("g1", "8")) = 2
    /\ \E i, j \in CallsFor("ban", "g1", "8") :
          /\ i < j /\ ~platform[i].ok /\ platform[j].ok
    /\ Cardinality(CallsFor("ban", "g1", "8")) = 2
    /\ StoredVerified(<<"g1", "8">>, FALSE)

(***************************************************************************)
(* The scheduler's save and the interactive process's writes.              *)
(***************************************************************************)
\* The step is the scheduler's save of user_data.
CronSaveStep == cron.pc = "save" /\ cron'.pc # "save"

\* C32: a save of user_data by the scheduler changes, relative to the
\* document in the store at the moment of the save, only the verified flag
\* of the member being removed: every other record in the store, those the
\* interactive process wrote after the scheduler's load included, is
\* present and unchanged afterwards.
C32_SaveChangesOnlyRemovedMember ==
    [][CronSaveStep =>
          \A g \in DOMAIN user_data :
             /\ g \in DOMAIN user_data'
             /\ \A u \in DOMAIN user_data[g] :
                   /\ u \in DOMAIN user_data'[g]
                   /\ IF g = cron.group_id /\ u = Head(cron.users)
                      THEN user_data'[g][u] \in
                              {user_data[g][u],
                               [user_data[g][u] EXCEPT !.verified = FALSE]}
                      ELSE user_data'[g][u] = user_data[g][u]]_vars

(***************************************************************************)
(* What track_rejection returns and what it has stored.                    *)
(***************************************************************************)
\* C33: when a track_rejection on a group returns true, the store, as an
\* is_group_blocked and a get_rejection_count called right after would
\* read it, has the group blocked and with the incremented count, also
\* when the save of the call failed.
C33_ReturnMatchesStore ==
    [][\A p \in Procs, g \in Groups :
          (TrackStep(p, g) /\ tr[p].doc[g].blocked)
             => /\ IsGroupBlocked(rejected', g)
                /\ GetRejectionCount(rejected', g) = tr[p].doc[g].rejection_count]_vars

(***************************************************************************)
(* A save that fails.                                                      *)
(***************************************************************************)
\* C34: when a save of k under the file backend returns false, a load of k
\* returns afterwards what a load of k returned just before the save: the
\* earlier document is neither truncated nor partly overwritten.
C34_FailedSaveLeavesStore ==
    [][(SaveReturnStep /\ lastCall'.backend = "file" /\ ~lastCall'.ret) =>
          LET k == lastCall'.key
              p == lastCall'.p
          IN FileLoad(files'[k]) =
                (IF io[p].pc = "writing" THEN io[p].before ELSE FileLoad(files[k]))]_vars

(***************************************************************************)
(* Member records that cannot be processed.                                *)
(***************************************************************************)
\* The record can be processed: the key is a number and a verified record
\* has its address.
Processable(user_id, user_info) ==
    /\ IsNumeric(user_id)
    /\ user_info.verified => "address" \in DOMAIN user_info

\* C35: a member record that cannot be processed affects only that member.
\* When the pass is over, every other member of a configured group that is
\* stored verified (the owner aside) has had the balance checked in the pass,
\* and every member found without the balance has been banned.
C35_BadRecordAffectsOnlyItself ==
    (cron.pc = "done" /\ passes > 0) =>
        /\ \A g \in DOMAIN config : \A u \in DOMAIN Get(user_data, g, EmptyDoc) :
              (/\ Processable(u, user_data[g][u])
               /\ ~IsOwner(IntOf(u))
               /\ user_data[g][u].verified) =>
                  \E i \in DOMAIN checks :
                      checks[i].group_id = g /\ checks[i].user_id = u
        /\ \A i \in DOMAIN checks :
              ~checks[i].has_balance =>
                  \E j \in DOMAIN platform :
                      /\ platform[j].op = "ban"
                      /\ platform[j].chat_id = checks[i].group_id
                      /\ platform[j].user_id = IntOf(checks[i].user_id)

(***************************************************************************)
(* The chain of the balance queries.                                       *)
(***************************************************************************)
\* The group's resolved chain: CHAIN_MAP's key for a known alias, the
\* identifier itself otherwise ("eth" when the group has no chain_id).
ResolvedChain(group_config) ==
    ChainMap(IF group_config.chain_id = NoneVal THEN "eth" ELSE group_config.chain_id)

\* The balance queries sent to a provider in the call that has returned: the
\* primary provider's, and the secondary provider's when its key is set.
BalanceQueries ==
    {i \in DOMAIN vb.calls :
        \/ vb.calls[i].provider = "moralis"
        \/ vb.calls[i].provider = "etherscan" /\ vb.env.ethKey}

\* C36: every balance query of verify_user_balance, to the primary or to the
\* secondary provider, is made for the group's resolved chain; for a group
\* on bsc or polygon no balance comes from a query against Ethereum mainnet.
C36_QueriesOnResolvedChain ==
    vb.pc = "returned" =>
        \A i \in BalanceQueries : vb.calls[i].chain = ResolvedChain(vb.group_config)
====
